---- MODULE Spec2Model ----
(***************************************************************************)
(* Model of compligator/normalizer.py: the per-format extractors, the      *)
(* per-file normalization (_normalize_file) and the walk (normalize_all)   *)
(* over a framework-keyed source tree, with the destination tree that      *)
(* persists from one run to the next.                                      *)
(*                                                                         *)
(* A text block (section content) is the sequence of its lines: the empty  *)
(* string is the empty sequence, and "\n".join of lines is the sequence.   *)
(* An exception is a value of the field exc of an extractor's result.      *)
(***************************************************************************)
EXTENDS Integers, Sequences, FiniteSets, TLC

\* ------------------------------------------------------------------ bounds
\* The number of runs of normalize_all in one behaviour.
MaxRuns == 2
\* The number of files in the source tree.
MaxFiles == 2

\* ------------------------------------------------------- module constants
SKIP_SUBDIRS == {"disa-stigs"}
PDF_EXTENSIONS == {".pdf"}
HTML_EXTENSIONS == {".html", ".htm"}
JSON_EXTENSIONS == {".json"}
SUPPORTED_EXTENSIONS == PDF_EXTENSIONS \cup HTML_EXTENSIONS \cup JSON_EXTENSIONS
KNOWN_UNSUPPORTED == {".zip", ".doc", ".docx", ".xlsx", ".xls", ".xml"}
IGNORE_NAMES == {".compligator-state.json", "README.md"}

\* The framework registry compligator.downloaders.SERVICES, in its order.
SERVICES ==
  << [key |-> "cmmc", subdir |-> "cmmc"],
     [key |-> "nist-800-53", subdir |-> "nist"],
     [key |-> "disa", subdir |-> "disa-stigs"] >>

\* ------------------------------------------------------------- documents
\* The contents a source file can have, by name.  A PDF is whether fitz can
\* open it and the raw text of its pages; an HTML page is whether it can be
\* read, whether BeautifulSoup finds a container (main, role=main, article,
\* body) and the elements with text, in document order; a JSON file is
\* whether json.loads parses it and the value parsed.
PdfDocs == {"pdf_text", "pdf_blank", "pdf_corrupt"}
HtmlDocs == {"html_main", "html_bare", "html_empty", "html_div", "html_blank",
             "html_unreadable"}
JsonDocs == {"json_invalid", "json_catalog", "json_profile", "json_other",
             "json_null", "json_number", "json_string", "json_array",
             "json_catalog_list", "json_catalog_empty", "json_profile_empty"}

\* JSON values, tagged with their Python type after json.loads.
JDict(r) == [t |-> "dict", v |-> r]
JList(s) == [t |-> "list", v |-> s]
JStr(s) == [t |-> "str", v |-> s]
JNum(n) == [t |-> "int", v |-> n]
JNull == [t |-> "NoneType", v |-> 0]

\* The characters of the two keys _extract_oscal_json looks for.
CatalogKey == <<"c", "a", "t", "a", "l", "o", "g">>
ProfileKey == <<"p", "r", "o", "f", "i", "l", "e">>

Ac1Enhancement ==
  [id |-> "ac-1.1", title |-> "Review",
   parts |-> << [name |-> "statement", prose |-> "Review X.", parts |-> <<>>] >>,
   controls |-> <<>>]

\* A control with no prose of its own, whose enhancement has some.
Ac2Control ==
  [id |-> "ac-2", title |-> "Account Management",
   parts |-> << [name |-> "assessment-objective", prose |-> "Determine if X.",
                 parts |-> <<>>] >>,
   controls |-> << Ac1Enhancement >>]

Ac1Control ==
  [id |-> "ac-1", title |-> "Policy and Procedures",
   parts |-> << [name |-> "statement", prose |-> "Do X.",
                 parts |-> << [name |-> "item", prose |-> " ", parts |-> <<>>],
                              [name |-> "item", prose |-> "Do Y.", parts |-> <<>>] >>],
                [name |-> "guidance", prose |-> "Additional guidance.",
                 parts |-> <<>>] >>,
   controls |-> <<>>]

SampleCatalog ==
  [groups |-> << [controls |-> << Ac1Control, Ac2Control >>] >>]

SampleProfile ==
  [metadata |-> [title |-> "Baseline"],
   imports |->
     << ("include-controls" :> << ("with-ids" :> <<"ac-2", "ac-1">>) >>),
        ("include-controls" :> << ("with-ids" :> <<"au-3", "ac-2">>) >>) >>]

\* The JSON object {}.
EmptyObject == [k \in {} |-> 0]

Content(doc) ==
  CASE doc = "pdf_text" -> [opens |-> TRUE, pages |-> <<"Hello", " ", "World">>]
    [] doc = "pdf_blank" -> [opens |-> TRUE, pages |-> <<" ">>]
    [] doc = "pdf_corrupt" -> [opens |-> FALSE, pages |-> <<>>]
    [] doc = "html_main" ->
         [readable |-> TRUE, container |-> TRUE,
          nodes |-> << [tag |-> "h1", text |-> "Intro"],
                       [tag |-> "p", text |-> "Hello"],
                       [tag |-> "h2", text |-> "Details"],
                       [tag |-> "h3", text |-> "Empty"],
                       [tag |-> "li", text |-> "World"] >>]
    [] doc = "html_bare" ->
         [readable |-> TRUE, container |-> FALSE,
          nodes |-> << [tag |-> "p", text |-> "Hello"] >>]
    [] doc = "html_empty" ->
         [readable |-> TRUE, container |-> FALSE, nodes |-> <<>>]
    [] doc = "html_div" ->
         [readable |-> TRUE, container |-> TRUE,
          nodes |-> << [tag |-> "div", text |-> "Loose"] >>]
    [] doc = "html_blank" ->
         [readable |-> TRUE, container |-> TRUE,
          nodes |-> << [tag |-> "p", text |-> ""] >>]
    [] doc = "html_unreadable" ->
         [readable |-> FALSE, container |-> FALSE, nodes |-> <<>>]
    [] doc = "json_invalid" -> [parses |-> FALSE, data |-> JNull]
    [] doc = "json_catalog" ->
         [parses |-> TRUE, data |-> JDict([catalog |-> JDict(SampleCatalog)])]
    [] doc = "json_profile" ->
         [parses |-> TRUE, data |-> JDict([profile |-> JDict(SampleProfile)])]
    [] doc = "json_other" ->
         [parses |-> TRUE, data |-> JDict([foo |-> JNum(1)])]
    [] doc = "json_null" -> [parses |-> TRUE, data |-> JNull]
    [] doc = "json_number" -> [parses |-> TRUE, data |-> JNum(5)]
    [] doc = "json_string" ->
         [parses |-> TRUE, data |-> JStr(<<"a", " ">> \o CatalogKey)]
    [] doc = "json_array" ->
         [parses |-> TRUE, data |-> JList(<< JStr(<<"x">>) >>)]
    [] doc = "json_catalog_list" ->
         [parses |-> TRUE, data |-> JDict([catalog |-> JList(<<>>)])]
    [] doc = "json_catalog_empty" ->
         [parses |-> TRUE, data |-> JDict([catalog |-> JDict(EmptyObject)])]
    [] doc = "json_profile_empty" ->
         [parses |-> TRUE, data |-> JDict([profile |-> JDict(EmptyObject)])]

\* ------------------------------------------------------- Python helpers
\* str.strip() on the texts of the documents above.
Strip(s) == IF s \in {"", " ", "\n"} THEN "" ELSE s

\* str.upper() on the control ids and families of the documents above.
Upper(s) ==
  CASE s = "ac-1" -> "AC-1"
    [] s = "ac-2" -> "AC-2"
    [] s = "ac-1.1" -> "AC-1.1"
    [] s = "au-3" -> "AU-3"
    [] s = "ac" -> "AC"
    [] s = "au" -> "AU"
    [] OTHER -> s

\* cid.split("-")[0] on the control ids of the documents above.
SplitFirst(cid) ==
  CASE cid \in {"ac-1", "ac-2", "ac-1.1"} -> "ac"
    [] cid = "au-3" -> "au"
    [] OTHER -> cid

\* str.title() on the part names.
Title(name) ==
  CASE name = "statement" -> "Statement"
    [] name = "guidance" -> "Guidance"
    [] OTHER -> name

\* dict.get(key, default)
Get(d, key, default) == IF key \in DOMAIN d THEN d[key] ELSE default

\* needle in hay, for two strings given by their characters.
IsSubstring(needle, hay) ==
  \E i \in 0..(Len(hay) - Len(needle)) :
    SubSeq(hay, i + 1, i + Len(needle)) = needle

\* The strings of `order` that occur in ids, each as often as it occurs,
\* in the order of `order`: sorted(ids) when `order` is sorted.
RECURSIVE SortedBy(_, _)
SortedBy(order, ids) ==
  IF order = <<>> THEN <<>>
  ELSE SelectSeq(ids, LAMBDA x : x = Head(order)) \o SortedBy(Tail(order), ids)

\* The control ids and the families in Python's string order.
IdOrder == <<"ac-1", "ac-1.1", "ac-2", "au-3">>
FamilyOrder == <<"AC", "AU">>

\* ", ".join(strs)
RECURSIVE JoinComma(_)
JoinComma(strs) ==
  IF strs = <<>> THEN ""
  ELSE IF Len(strs) = 1 THEN strs[1]
  ELSE strs[1] \o ", " \o JoinComma(Tail(strs))

\* ---------------------------------------------------------- PDF extraction
\* One section per page whose stripped text is not empty.
RECURSIVE PdfSections(_, _)
PdfSections(pages, page_num) ==
  IF pages = <<>> THEN <<>>
  ELSE LET text == Strip(Head(pages))
           rest == PdfSections(Tail(pages), page_num + 1)
       IN IF text # ""
          THEN << [heading |-> "Page " \o ToString(page_num), level |-> 1,
                   content |-> <<text>>] >> \o rest
          ELSE rest

extract_pdf(doc) ==
  LET pdf == Content(doc)
  IN IF ~pdf.opens
     THEN [exc |-> "RuntimeError", sections |-> <<>>]
     ELSE [exc |-> "none", sections |-> PdfSections(pdf.pages, 1)]

\* --------------------------------------------------------- HTML extraction
HEADING_TAGS == {"h1", "h2", "h3", "h4"}
CONTENT_TAGS == {"p", "li", "td", "th", "figcaption", "blockquote"}

\* int(element.name[1])
HeadingRank(tag) ==
  CASE tag = "h1" -> 1 [] tag = "h2" -> 2 [] tag = "h3" -> 3 [] tag = "h4" -> 4

\* get_text(separator="\n", strip=True): the non-empty texts, one per line.
RawText(nodes) ==
  LET texts == [i \in 1..Len(nodes) |-> nodes[i].text]
  IN SelectSeq(texts, LAMBDA t : t # "")

\* A flush that emits a section whatever the accumulator holds.
FlushAlways(sections, heading, level, lines) ==
  Append(sections, [heading |-> heading, level |-> level, content |-> lines])

\* The flush of the accumulator: a section when the joined lines are not empty.
Flush(sections, heading, level, lines) ==
  IF lines # <<>>
  THEN Append(sections, [heading |-> heading, level |-> level, content |-> lines])
  ELSE sections

\* The walk over container.find_all(HEADING_TAGS | CONTENT_TAGS), with the
\* final flush.
RECURSIVE HtmlWalk(_, _, _, _, _)
HtmlWalk(elements, sections, current_heading, current_level, current_lines) ==
  IF elements = <<>>
  THEN Flush(sections, current_heading, current_level, current_lines)
  ELSE LET element == Head(elements)
       IN IF element.tag \in HEADING_TAGS
          THEN HtmlWalk(Tail(elements),
                        Flush(sections, current_heading, current_level, current_lines),
                        element.text, HeadingRank(element.tag), <<>>)
          ELSE HtmlWalk(Tail(elements), sections, current_heading, current_level,
                        IF element.text # ""
                        THEN Append(current_lines, element.text)
                        ELSE current_lines)

\* The fallback when the container has no container element at all.
NoContainerSections(stem, nodes) ==
  << [heading |-> stem, level |-> 1, content |-> RawText(nodes)] >>

\* container.find_all(HEADING_TAGS | CONTENT_TAGS), in document order.
FindAll(nodes) ==
  SelectSeq(nodes, LAMBDA n : n.tag \in HEADING_TAGS \cup CONTENT_TAGS)

\* The sections of a page in which a container was found: those of the walk,
\* or the container's raw text when the walk gave none.
ContainerSections(stem, nodes) ==
  LET sections == HtmlWalk(FindAll(nodes), <<>>, stem, 1, <<>>)
      raw == RawText(nodes)
  IN IF sections = <<>> /\ raw # <<>>
     THEN << [heading |-> stem, level |-> 1, content |-> raw] >>
     ELSE sections

extract_html(doc, stem) ==
  LET html == Content(doc)
  IN IF ~html.readable
     THEN [exc |-> "RuntimeError", sections |-> <<>>]
     ELSE IF ~html.container
     THEN [exc |-> "none", sections |-> NoContainerSections(stem, html.nodes)]
     ELSE [exc |-> "none", sections |-> ContainerSections(stem, html.nodes)]

\* --------------------------------------------------- OSCAL JSON extraction
\* _collect_prose: the stripped prose of a part, then that of its sub-parts.
RECURSIVE collect_prose(_)
RECURSIVE collect_prose_parts(_)
collect_prose_parts(parts) ==
  IF parts = <<>> THEN <<>>
  ELSE collect_prose(Head(parts)) \o collect_prose_parts(Tail(parts))

collect_prose(part) ==
  LET prose == Strip(Get(part, "prose", ""))
  IN (IF prose # "" THEN <<prose>> ELSE <<>>)
     \o collect_prose_parts(Get(part, "parts", <<>>))

\* The labelled blocks of the statement and guidance parts, in order.
RECURSIVE TextParts(_)
TextParts(parts) ==
  IF parts = <<>> THEN <<>>
  ELSE LET part == Head(parts)
           name == Get(part, "name", "")
           prose == collect_prose(part)
       IN (IF name \in {"statement", "guidance"} /\ prose # <<>>
           THEN << <<"**" \o Title(name) \o "**">> \o prose >>
           ELSE <<>>)
          \o TextParts(Tail(parts))

\* "\n\n".join(text_parts): a blank line between two blocks.
RECURSIVE JoinBlocks(_)
JoinBlocks(text_parts) ==
  IF text_parts = <<>> THEN <<>>
  ELSE IF Len(text_parts) = 1 THEN text_parts[1]
  ELSE text_parts[1] \o <<"">> \o JoinBlocks(Tail(text_parts))

RECURSIVE extract_control_sections(_, _)
RECURSIVE ControlsSections(_, _)
ControlsSections(controls, level) ==
  IF controls = <<>> THEN <<>>
  ELSE extract_control_sections(Head(controls), level)
       \o ControlsSections(Tail(controls), level)

\* A flattening that puts the sections of the enhancements before the
\* control's own.
EnhancementsFirst(control, level) ==
  LET cid == Upper(Get(control, "id", ""))
      title == Get(control, "title", "")
      heading == IF cid # "" THEN cid \o ": " \o title ELSE title
      content == JoinBlocks(TextParts(Get(control, "parts", <<>>)))
  IN ControlsSections(Get(control, "controls", <<>>), level + 1)
     \o (IF heading # "" /\ content # <<>>
         THEN << [heading |-> heading, level |-> level, content |-> content] >>
         ELSE <<>>)

extract_control_sections(control, level) ==
  LET cid == Upper(Get(control, "id", ""))
      title == Get(control, "title", "")
      heading == IF cid # "" THEN cid \o ": " \o title ELSE title
      content == JoinBlocks(TextParts(Get(control, "parts", <<>>)))
  IN (IF heading # "" /\ content # <<>>
      THEN << [heading |-> heading, level |-> level, content |-> content] >>
      ELSE <<>>)
     \o ControlsSections(Get(control, "controls", <<>>), level + 1)

RECURSIVE GroupsSections(_)
GroupsSections(groups) ==
  IF groups = <<>> THEN <<>>
  ELSE ControlsSections(Get(Head(groups), "controls", <<>>), 2)
       \o GroupsSections(Tail(groups))

extract_catalog(catalog) == GroupsSections(Get(catalog, "groups", <<>>))

\* all_ids: every with-ids entry of every include-controls of every import.
RECURSIVE WithIds(_)
WithIds(includes) ==
  IF includes = <<>> THEN <<>>
  ELSE Get(Head(includes), "with-ids", <<>>) \o WithIds(Tail(includes))

RECURSIVE AllIds(_)
AllIds(imports) ==
  IF imports = <<>> THEN <<>>
  ELSE WithIds(Get(Head(imports), "include-controls", <<>>)) \o AllIds(Tail(imports))

\* The sections of the families of `order` that have ids, in that order.
RECURSIVE FamilySections(_, _)
FamilySections(order, sorted_ids) ==
  IF order = <<>> THEN <<>>
  ELSE LET family == Head(order)
           ids == SelectSeq(sorted_ids, LAMBDA cid : Upper(SplitFirst(cid)) = family)
       IN (IF ids # <<>>
           THEN << [heading |-> family \o " Controls", level |-> 2,
                    content |-> << JoinComma(ids) >>] >>
           ELSE <<>>)
          \o FamilySections(Tail(order), sorted_ids)

extract_profile(profile) ==
  LET title == Get(Get(profile, "metadata", EmptyObject), "title", "Unknown Profile")
      all_ids == AllIds(Get(profile, "imports", <<>>))
      sorted_ids == SortedBy(IdOrder, all_ids)
      families == SelectSeq(FamilyOrder,
                    LAMBDA fam : \E i \in 1..Len(all_ids) :
                                   Upper(SplitFirst(all_ids[i])) = fam)
  IN IF all_ids = <<>>
     THEN << [heading |-> title, level |-> 1,
              content |-> <<"No control IDs found in profile.">>] >>
     ELSE << [heading |-> title, level |-> 1,
              content |-> << "Total controls: " \o ToString(Len(all_ids)),
                             "Families: " \o JoinComma(families) >>] >>
          \o FamilySections(FamilyOrder, sorted_ids)

\* Python's `key in data`, by the type of data: "True", "False" or the
\* exception raised.  key is the key's characters, name the same as a string.
KeyIn(key, name, data) ==
  CASE data.t = "dict" -> IF name \in DOMAIN data.v THEN "True" ELSE "False"
    [] data.t = "list" ->
         IF \E i \in 1..Len(data.v) : data.v[i].t = "str" /\ data.v[i].v = key
         THEN "True" ELSE "False"
    [] data.t = "str" -> IF IsSubstring(key, data.v) THEN "True" ELSE "False"
    [] OTHER -> "TypeError"

\* data[name], whose value the extractor then calls .get on: "none", or the
\* exception raised.
Subscript(data, name) ==
  IF data.t # "dict" THEN "TypeError"
  ELSE IF data.v[name].t # "dict" THEN "AttributeError"
  ELSE "none"

extract_oscal_json(doc) ==
  LET json == Content(doc)
      data == json.data
      has_catalog == KeyIn(CatalogKey, "catalog", data)
      has_profile == KeyIn(ProfileKey, "profile", data)
  IN IF ~json.parses THEN [exc |-> "RuntimeError", sections |-> <<>>]
     ELSE IF has_catalog = "TypeError" THEN [exc |-> "TypeError", sections |-> <<>>]
     ELSE IF has_catalog = "True"
     THEN IF Subscript(data, "catalog") # "none"
          THEN [exc |-> Subscript(data, "catalog"), sections |-> <<>>]
          ELSE [exc |-> "none", sections |-> extract_catalog(data.v["catalog"].v)]
     ELSE IF has_profile = "True"
     THEN IF Subscript(data, "profile") # "none"
          THEN [exc |-> Subscript(data, "profile"), sections |-> <<>>]
          ELSE [exc |-> "none", sections |-> extract_profile(data.v["profile"].v)]
     ELSE [exc |-> "UnsupportedOscalType", sections |-> <<>>]

\* ------------------------------------------------------------ source tree
\* A source file: its framework subdirectory, the directory below it ("" for
\* the subdirectory itself), its stem and suffix, and its content.
File(subdir, dir, stem, ext, doc) ==
  [subdir |-> subdir, dir |-> dir, stem |-> stem, ext |-> ext, doc |-> doc]

NoSource == File("", "", "", "", "")

\* source_path.name
Name(f) == f.stem \o f.ext

\* source_path.suffix.lower()
Lower(ext) == IF ext = ".PDF" THEN ".pdf" ELSE ext

\* The paths below a framework subdirectory, in the order of sorted() on
\* pathlib paths (by components, upper case before lower case).
PathOrder ==
  << [dir |-> "", stem |-> ".hidden", ext |-> ".pdf"],
     [dir |-> "", stem |-> "README", ext |-> ".md"],
     [dir |-> "", stem |-> "Y", ext |-> ".PDF"],
     [dir |-> "", stem |-> "a", ext |-> ".zip"],
     [dir |-> "sub", stem |-> "x", ext |-> ".pdf"],
     [dir |-> "", stem |-> "x", ext |-> ".html"],
     [dir |-> "", stem |-> "x", ext |-> ".json"],
     [dir |-> "", stem |-> "x", ext |-> ".pdf"] >>

PathOf(f) == [dir |-> f.dir, stem |-> f.stem, ext |-> f.ext]

PathRank(f) == CHOOSE i \in 1..Len(PathOrder) : PathOrder[i] = PathOf(f)

\* The contents a path can have, by its suffix.
DocsOf(ext) ==
  CASE Lower(ext) \in PDF_EXTENSIONS -> PdfDocs
    [] Lower(ext) \in HTML_EXTENSIONS -> HtmlDocs
    [] Lower(ext) \in JSON_EXTENSIONS -> JsonDocs
    [] OTHER -> {"other"}

\* One content per way _normalize_file can end on a suffix.
CoreDocs ==
  {"pdf_text", "pdf_blank", "html_main", "json_catalog", "json_other",
   "json_null", "other"}

\* The files every source tree holds: two ignored names and a file of the
\* excluded framework.
FixedFiles ==
  { File("cmmc", "", ".hidden", ".pdf", "pdf_text"),
    File("cmmc", "", "README", ".md", "other"),
    File("disa-stigs", "", "x", ".pdf", "pdf_text") }

\* The other files a source tree is drawn from, with contents among docs:
\* every content at the paths of stem x of the first framework, and a PDF
\* with text elsewhere.
SourceFiles(docs) ==
  { File("cmmc", PathOrder[i].dir, PathOrder[i].stem, PathOrder[i].ext, d) :
      <<i, d>> \in { <<j, e>> \in (1..Len(PathOrder)) \X docs :
                     /\ e \in DocsOf(PathOrder[j].ext)
                     /\ File("cmmc", PathOrder[j].dir, PathOrder[j].stem,
                             PathOrder[j].ext, e) \notin FixedFiles
                     /\ \/ PathOrder[j].stem = "x" /\ PathOrder[j].dir = ""
                        \/ e \in {"pdf_text", "other"} } }
  \cup { File("nist", "", "x", ".pdf", d) : d \in {"pdf_text"} \cap docs }

\* The sets of at most k files of S at different paths, to go with FixedFiles.
RECURSIVE Trees(_, _)
Trees(S, k) ==
  IF k = 0 THEN { {} }
  ELSE LET smaller == Trees(S, k - 1)
       IN smaller \cup
          { T \cup {f} : <<T, f>> \in
              { <<U, g>> \in smaller \X S :
                  \A h \in U : h.subdir # g.subdir \/ PathOf(h) # PathOf(g) } }

\* sorted(files), by path.
RECURSIVE Sorted(_)
Sorted(files) ==
  IF files = {} THEN <<>>
  ELSE LET first == CHOOSE f \in files : \A g \in files : PathRank(f) <= PathRank(g)
       IN <<first>> \o Sorted(files \ {first})

\* source_path.name.startswith("."), on the names of PathOrder.
StartsWithDot(f) == f.stem = ".hidden"

Ignored(f) == Name(f) \in IGNORE_NAMES \/ StartsWithDot(f)

\* The files normalize_all hands to _normalize_file, each with its service,
\* in the order of the walk.
RECURSIVE Enumerate(_, _)
Enumerate(services, files) ==
  IF services = <<>> THEN <<>>
  ELSE LET svc == Head(services)
           found == { f \in files : f.subdir = svc.subdir /\ ~Ignored(f) }
           walk == [i \in 1..Cardinality(found) |->
                      [svc |-> svc, file |-> Sorted(found)[i]]]
       IN (IF svc.subdir \in SKIP_SUBDIRS THEN <<>> ELSE walk)
          \o Enumerate(Tail(services), files)

\* ------------------------------------------------------- destination tree
\* A destination path: output_dir / subdir / (stem + "." + kind).
DestPath(subdir, stem, kind) == [subdir |-> subdir, stem |-> stem, kind |-> kind]

DestPaths ==
  { DestPath(SERVICES[i].subdir, PathOrder[j].stem, kind) :
      <<i, j, kind>> \in
        { <<a, b, c>> \in (1..Len(SERVICES)) \X (1..Len(PathOrder)) \X {"md", "json"} :
            /\ SERVICES[a].subdir \notin SKIP_SUBDIRS
            /\ Lower(PathOrder[b].ext) \in SUPPORTED_EXTENSIONS
            /\ ~StartsWithDot(PathOrder[b]) } }

\* What is at a destination path: nothing, or a file written from the source
\* file src.
NoFile == [exists |-> FALSE, src |-> NoSource]

Artifact(src) == [exists |-> TRUE, src |-> src]

VARIABLES
  tree,               \* the source tree: its files besides FixedFiles
  dest,               \* the destination tree: what is at each destination path
  dirs,               \* the subdirectories of the destination root that exist
  written,            \* the destination paths the current call has written to
  run,                \* the number of calls of normalize_all so far
  force,              \* the force flag of the current call
  progress_callback,  \* whether the current call was given a callback
  pc,                 \* "idle", "running", "done" (returned) or "aborted" (raised)
  todo,               \* the files the walk has yet to reach, in order
  result,             \* the NormalizeResult of the current call
  log,                \* per file handed to _normalize_file: the file, what was
                      \*   returned and whether an extractor was called
  prev,               \* how the call before the current one ended and, if it
                      \*   returned, its force flag and its log
  sections,           \* the sections the last extractor call returned
  calls,              \* the calls of progress_callback in the current call
  raised,             \* the exception that left normalize_all, or "none"
  document            \* the parsed document of a direct call of an extractor

vars == <<tree, dest, dirs, written, run, force, progress_callback, pc, todo, result, log,
          prev, sections, calls, raised, document>>

\* No direct call of an extractor.
NoDocument == [kind |-> "none"]

NormalizeResult ==
  [processed |-> <<>>, skipped |-> <<>>, errors |-> <<>>, unsupported |-> <<>>]

\* Before the first call: a source tree among trees, an empty destination.
InitWith(trees) ==
  /\ tree \in trees
  /\ dest = [p \in DestPaths |-> NoFile]
  /\ dirs = {}
  /\ written = {}
  /\ run = 0
  /\ force = FALSE
  /\ progress_callback = FALSE
  /\ pc = "idle"
  /\ todo = <<>>
  /\ result = NormalizeResult
  /\ log = <<>>
  /\ prev = [pc |-> "idle", force |-> FALSE, log |-> <<>>]
  /\ sections = <<>>
  /\ calls = <<>>
  /\ raised = "none"
  /\ document = NoDocument

Init == InitWith(Trees(SourceFiles(CoreDocs), MaxFiles))

\* A source tree of FixedFiles and at most one more file, with any content.
InitAnyDoc ==
  InitWith(Trees(SourceFiles(PdfDocs \cup HtmlDocs \cup JsonDocs \cup {"other"}), 1))

\* ------------------------------------------------------------- the writer
\* What dest.write_text can do to a destination path: write it, raise
\* OSError before the file is created, or raise after creating it.
WriteOutcomes == {"written", "refused", "truncated"}

WriteText(d, path, src, outcome) ==
  IF outcome = "refused" THEN d ELSE [d EXCEPT ![path] = Artifact(src)]

\* The two writes of _normalize_file, in order: the JSON write happens only
\* when the Markdown write returned.
WriteBoth(d, md_dest, json_dest, src, md, js) ==
  IF md = "written"
  THEN WriteText(WriteText(d, md_dest, src, md), json_dest, src, js)
  ELSE WriteText(d, md_dest, src, md)

\* The destination paths the two writes created or overwrote.
Touched(md_dest, json_dest, md, js) ==
  (IF md # "refused" THEN {md_dest} ELSE {})
  \cup (IF md = "written" /\ js # "refused" THEN {json_dest} ELSE {})

\* ---------------------------------------------------- per-file normalization
\* The extractor for a suffix.
Extract(f) ==
  LET ext == Lower(f.ext)
  IN IF ext \in PDF_EXTENSIONS THEN extract_pdf(f.doc)
     ELSE IF ext \in JSON_EXTENSIONS THEN extract_oscal_json(f.doc)
     ELSE extract_html(f.doc, f.stem)

\* The text of the RuntimeError an extractor raises.
ErrorMessage(f) ==
  LET ext == Lower(f.ext)
  IN IF ext \in PDF_EXTENSIONS THEN "pymupdf failed"
     ELSE IF ext \in JSON_EXTENSIONS THEN "JSON parse failed"
     ELSE "Could not read " \o Name(f)

\* The skip test with the force flag read the wrong way round.
ShouldSkipInverted(frc, d, md_dest, json_dest) ==
  frc /\ d[md_dest].exists /\ d[json_dest].exists

\* The skip test without the force flag.
ShouldSkipIgnoringForce(frc, d, md_dest, json_dest) ==
  d[md_dest].exists /\ d[json_dest].exists

\* The skip test of _normalize_file.
ShouldSkip(frc, d, md_dest, json_dest) ==
  ~frc /\ d[md_dest].exists /\ d[json_dest].exists

\* output_subdir.mkdir(parents=True, exist_ok=True): nothing to do when the
\* directory exists; otherwise it is created, or OSError is raised.
MkdirOutcomes(subdir) ==
  IF subdir \in dirs THEN {"exists"} ELSE {"created", "OSError"}

\* What one call of _normalize_file can do: the status and message returned
\* (status "raise" and the exception, when one leaves the function), the
\* destination tree and directories after it, the paths it wrote to, the
\* sections extracted, and whether an extractor was called.
Outcome(status, msg, d, ds, touched, secs, dispatched) ==
  [status |-> status, msg |-> msg, dest |-> d, dirs |-> ds, touched |-> touched,
   sections |-> secs, dispatched |-> dispatched]

normalize_file(f, output_subdir, frc) ==
  LET name == Name(f)
      ext == Lower(f.ext)
      md_dest == DestPath(output_subdir, f.stem, "md")
      json_dest == DestPath(output_subdir, f.stem, "json")
      r == Extract(f)
  IN IF ext \in KNOWN_UNSUPPORTED \/ ext \notin SUPPORTED_EXTENSIONS
     THEN { Outcome("unsupported", name, dest, dirs, {}, sections, FALSE) }
     ELSE IF ShouldSkip(frc, dest, md_dest, json_dest)
     THEN { Outcome("skipped", name, dest, dirs, {}, sections, FALSE) }
     ELSE IF r.exc = "UnsupportedOscalType"
     THEN { Outcome("unsupported", name, dest, dirs, {}, r.sections, TRUE) }
     ELSE IF r.exc = "RuntimeError"
     THEN { Outcome("error", ErrorMessage(f), dest, dirs, {}, r.sections, TRUE) }
     ELSE IF r.exc # "none"
     THEN { Outcome("raise", r.exc, dest, dirs, {}, r.sections, TRUE) }
     ELSE IF r.sections = <<>>
     THEN { Outcome("error", "no text content extracted", dest, dirs, {}, r.sections, TRUE) }
     ELSE { Outcome("raise", "OSError", dest, dirs, {}, r.sections, TRUE) :
              mk \in MkdirOutcomes(output_subdir) \cap {"OSError"} }
          \cup
          { Outcome(IF w[1] = "written" /\ w[2] = "written"
                    THEN "processed" ELSE "error",
                    IF w[1] = "written" /\ w[2] = "written"
                    THEN name ELSE "write failed",
                    WriteBoth(dest, md_dest, json_dest, f, w[1], w[2]),
                    dirs \cup {output_subdir},
                    Touched(md_dest, json_dest, w[1], w[2]), r.sections, TRUE) :
              w \in { v \in WriteOutcomes \X WriteOutcomes :
                        /\ MkdirOutcomes(output_subdir) # {"OSError"}
                        /\ v[1] # "written" => v[2] = "refused" } }

\* ------------------------------------------------------------ normalize_all
\* The append with `if` for `elif` after the first branch: a processed file
\* falls through to the final else as well.
RecordFallthrough(res, status, name, msg) ==
  CASE status = "processed" ->
         [res EXCEPT !.processed = Append(@, msg), !.errors = Append(@, <<name, msg>>)]
    [] status = "skipped" -> [res EXCEPT !.skipped = Append(@, msg)]
    [] status = "unsupported" -> [res EXCEPT !.unsupported = Append(@, msg)]
    [] OTHER -> [res EXCEPT !.errors = Append(@, <<name, msg>>)]

\* The append of one returned status to the lists of the result.
Record(res, status, name, msg) ==
  CASE status = "processed" -> [res EXCEPT !.processed = Append(@, msg)]
    [] status = "skipped" -> [res EXCEPT !.skipped = Append(@, msg)]
    [] status = "unsupported" -> [res EXCEPT !.unsupported = Append(@, msg)]
    [] OTHER -> [res EXCEPT !.errors = Append(@, <<name, msg>>)]

\* A call of normalize_all begins: a fresh result, and the walk laid out.
StartRun(frc, cb) ==
  /\ pc \in {"idle", "done", "aborted"}
  /\ run < MaxRuns
  /\ run' = run + 1
  /\ force' = frc
  /\ progress_callback' = cb
  /\ pc' = "running"
  /\ todo' = Enumerate(SERVICES, tree \cup FixedFiles)
  /\ result' = NormalizeResult
  /\ log' = <<>>
  /\ prev' = IF pc = "done"
             THEN [pc |-> pc, force |-> force, log |-> log]
             ELSE [pc |-> pc, force |-> FALSE, log |-> <<>>]
  /\ sections' = <<>>
  /\ calls' = <<>>
  /\ raised' = "none"
  /\ written' = {}
  /\ UNCHANGED <<tree, dest, dirs, document>>

\* The call of _normalize_file on the next file of the walk and the
\* recording of what it returned; an exception it lets through leaves
\* normalize_all.
NormalizeNext ==
  LET item == Head(todo)
  IN \E o \in normalize_file(item.file, item.svc.subdir, force) :
       /\ dest' = o.dest
       /\ dirs' = o.dirs
       /\ written' = written \cup o.touched
       /\ sections' = o.sections
       /\ IF o.status = "raise"
          THEN /\ pc' = "aborted"
               /\ raised' = o.msg
               /\ UNCHANGED <<todo, result, log>>
          ELSE /\ todo' = Tail(todo)
               /\ result' = Record(result, o.status, Name(item.file), o.msg)
               /\ log' = Append(log, [file |-> item.file, status |-> o.status,
                                      dispatched |-> o.dispatched])
               /\ UNCHANGED <<pc, raised>>

\* One iteration of the walk: the callback, if any, returns, and the file is
\* normalized.
Visit ==
  /\ pc = "running"
  /\ todo # <<>>
  /\ calls' = IF progress_callback
              THEN Append(calls, <<Head(todo).svc.key, Name(Head(todo).file)>>)
              ELSE calls
  /\ NormalizeNext
  /\ UNCHANGED <<tree, run, force, progress_callback, prev, document>>

\* One iteration of the walk in which the callback raises: nothing catches
\* it, and it leaves normalize_all.
CallbackRaises ==
  /\ pc = "running"
  /\ todo # <<>>
  /\ progress_callback
  /\ calls' = Append(calls, <<Head(todo).svc.key, Name(Head(todo).file)>>)
  /\ pc' = "aborted"
  /\ raised' = "callback"
  /\ UNCHANGED <<tree, dest, dirs, written, run, force, progress_callback, todo,
                 result, log, prev, sections, document>>

\* The walk is over: normalize_all returns the result.
Return ==
  /\ pc = "running"
  /\ todo = <<>>
  /\ pc' = "done"
  /\ UNCHANGED <<tree, dest, dirs, written, run, force, progress_callback, todo,
                 result, log, prev, sections, calls, raised, document>>

Next ==
  \/ \E frc \in BOOLEAN, cb \in BOOLEAN : StartRun(frc, cb)
  \/ Visit
  \/ CallbackRaises
  \/ Return

Spec == Init /\ [][Next]_vars

SpecAnyDoc == InitAnyDoc /\ [][Next]_vars

\* ------------------------------------------- direct calls of _extract_html
\* The number of elements in the container of a page.
MaxElements == 4

\* The elements a container can hold, with their visible text: headings,
\* block-content elements and an element find_all leaves out.
PageElements ==
  [tag : {"h1", "h3"}, text : {"T"}] \cup {[tag |-> "h2", text |-> ""]}
    \cup [tag : {"p", "td"}, text : {"", "A", "B"}]
    \cup {[tag |-> "div", text |-> "A"]}

\* The pages in which a container is found, by the elements of the container.
Pages == UNION { [1..n -> PageElements] : n \in 0..MaxElements }

\* Before a direct call of an extractor on one of documents.
InitDirect(documents) ==
  /\ tree = {}
  /\ dest = [p \in DestPaths |-> NoFile]
  /\ dirs = {}
  /\ written = {}
  /\ run = 0
  /\ force = FALSE
  /\ progress_callback = FALSE
  /\ pc = "idle"
  /\ todo = <<>>
  /\ result = NormalizeResult
  /\ log = <<>>
  /\ prev = [pc |-> "idle", force |-> FALSE, log |-> <<>>]
  /\ sections = <<>>
  /\ calls = <<>>
  /\ raised = "none"
  /\ document \in documents

InitHtml ==
  InitDirect({[kind |-> "html", stem |-> "x", nodes |-> page] : page \in Pages})

\* _extract_html on a readable page with a container returns its sections.
ExtractHtml ==
  /\ pc = "idle"
  /\ document.kind = "html"
  /\ sections' = ContainerSections(document.stem, document.nodes)
  /\ pc' = "done"
  /\ UNCHANGED <<tree, dest, dirs, written, run, force, progress_callback, todo,
                 result, log, prev, calls, raised, document>>

NextHtml == ExtractHtml

SpecHtml == InitHtml /\ [][NextHtml]_vars

\* ---------------------------------------- direct calls of _extract_catalog
\* The number of controls in a catalog, enhancements at every depth included.
MaxControls == 3

\* What a control can hold besides its enhancements: an id, a title and a
\* statement; a guidance; only an assessment objective; neither id nor title.
ControlFields ==
  { [id |-> "ac-1", title |-> "Policy and Procedures",
     parts |-> << [name |-> "statement", prose |-> "Do X.", parts |-> <<>>] >>],
    [id |-> "ac-1.1", title |-> "Review",
     parts |-> << [name |-> "guidance", prose |-> "Review X.", parts |-> <<>>] >>],
    [id |-> "ac-2", title |-> "Account Management",
     parts |-> << [name |-> "assessment-objective", prose |-> "Determine if X.",
                   parts |-> <<>>] >>],
    [title |-> "",
     parts |-> << [name |-> "statement", prose |-> "Do Y.", parts |-> <<>>] >>] }

\* The sequences of controls that hold at most n controls, enhancements at
\* every depth included.
Controls[n \in 0..MaxControls] ==
  {<<>>} \cup
  UNION { { << fields @@ [controls |-> enhancements] >> \o rest :
              fields \in ControlFields,
              enhancements \in Controls[i],
              rest \in Controls[n - 1 - i] } : i \in 0..(n - 1) }

\* The catalogs of two groups that hold at most MaxControls controls.
Catalogs ==
  UNION { { [groups |-> << [controls |-> first], [controls |-> second] >>] :
              first \in Controls[i], second \in Controls[MaxControls - i] } :
          i \in 0..MaxControls }

InitCatalog ==
  InitDirect({[kind |-> "catalog", catalog |-> catalog] : catalog \in Catalogs})

\* _extract_catalog on a catalog returns its sections.
ExtractCatalog ==
  /\ pc = "idle"
  /\ document.kind = "catalog"
  /\ sections' = extract_catalog(document.catalog)
  /\ pc' = "done"
  /\ UNCHANGED <<tree, dest, dirs, written, run, force, progress_callback, todo,
                 result, log, prev, calls, raised, document>>

NextCatalog == ExtractCatalog

SpecCatalog == InitCatalog /\ [][NextCatalog]_vars

\* ================================================================= claims
\* The two destination paths of a source file.
MdDest(f) == DestPath(f.subdir, f.stem, "md")
JsonDest(f) == DestPath(f.subdir, f.stem, "json")

\* A file normalize_all is meant to normalize: supported suffix, not ignored,
\* framework not excluded.
Eligible(f) ==
  /\ Lower(f.ext) \in SUPPORTED_EXTENSIONS
  /\ ~Ignored(f)
  /\ f.subdir \notin SKIP_SUBDIRS

\* A run without force has returned, and the run before it was one too.
SecondRunDone ==
  /\ run >= 2
  /\ pc = "done"
  /\ ~force
  /\ prev.pc = "done"
  /\ ~prev.force

\* The names of one list of the result (errors holds pairs).
NamesOf(list) == { (IF list = "errors" THEN result[list][i][1] ELSE result[list][i]) :
                     i \in 1..Len(result[list]) }

Lists == {"processed", "skipped", "unsupported", "errors"}

\* The names the current run recorded under a status, in the order of the walk.
RECURSIVE LoggedNames(_, _)
LoggedNames(entries, statuses) ==
  IF entries = <<>> THEN <<>>
  ELSE (IF Head(entries).status \in statuses
        THEN << Name(Head(entries).file) >> ELSE <<>>)
       \o LoggedNames(Tail(entries), statuses)

C2_FailureIsolation ==
  pc = "aborted" => raised = "callback"

\* C3 as stated: for a file recorded in errors, both artifacts exist or
\* neither does.
C3_NoPartialArtifacts ==
  \A i \in 1..Len(log) :
    log[i].status = "error" =>
      (dest[MdDest(log[i].file)].exists <=> dest[JsonDest(log[i].file)].exists)

\* C4 as stated: a filename appears in at most one of the four lists.
C4_NameInOneList ==
  \A a, b \in Lists : a # b => NamesOf(a) \cap NamesOf(b) = {}

\* C4 amended: every file handed to _normalize_file is handed to it once and
\* adds one entry to one list, the list of its status, so that each list is
\* the names of the files of that status in the order of the walk; a
\* filename is in two lists only when two files of the walk share it.
C4_OneEntryPerFile ==
  /\ \A i, j \in 1..Len(log) : i # j => log[i].file # log[j].file
  /\ result.processed = LoggedNames(log, {"processed"})
  /\ result.skipped = LoggedNames(log, {"skipped"})
  /\ result.unsupported = LoggedNames(log, {"unsupported"})
  /\ [i \in 1..Len(result.errors) |-> result.errors[i][1]]
       = LoggedNames(log, {"error"})
  /\ pc = "done" =>
       { log[i].file : i \in 1..Len(log) }
         = { f \in tree \cup FixedFiles : ~Ignored(f) /\ f.subdir \notin SKIP_SUBDIRS }

\* A run returned with one filename in two lists, from two files.
C4_Witness ==
  /\ pc = "done"
  /\ \E i, j \in 1..Len(log) :
       /\ Name(log[i].file) = Name(log[j].file)
       /\ log[i].status = "processed"
       /\ log[j].status = "error"

\* C5 as stated: no two source files share destination paths, so the
\* artifacts at the destination paths of a file recorded as processed or
\* skipped were written from that file.
C5_DestinationUnique ==
  \A i \in 1..Len(log) :
    log[i].status \in {"processed", "skipped"} =>
      /\ dest[MdDest(log[i].file)].src = log[i].file
      /\ dest[JsonDest(log[i].file)].src = log[i].file

\* C6: in a run with force, no file is recorded as skipped, and every file
\* of a supported suffix handed to _normalize_file reaches its extractor.
C6_ForcePolicy ==
  (run >= 1 /\ force) =>
    /\ result.skipped = <<>>
    /\ \A i \in 1..Len(log) :
         /\ log[i].status # "skipped"
         /\ Lower(log[i].file.ext) \in SUPPORTED_EXTENSIONS => log[i].dispatched

\* A run with force has extracted again a file whose two artifacts the run
\* before had written.
C6_Witness ==
  /\ run >= 2
  /\ force
  /\ pc = "done"
  /\ \E i \in 1..Len(log) :
       /\ prev.pc = "done"
       /\ prev.log[i].status = "processed"
       /\ log[i].file = prev.log[i].file
       /\ log[i].dispatched
       /\ log[i].status = "processed"

\* A JSON file that parses and has neither a top-level "catalog" key nor a
\* top-level "profile" key (a value that is no object has no key).
NonOscalJson(f) ==
  /\ Lower(f.ext) \in JSON_EXTENSIONS
  /\ Content(f.doc).parses
  /\ LET data == Content(f.doc).data
     IN data.t = "dict" => {"catalog", "profile"} \cap DOMAIN data.v = {}

\* C7 as stated: a JSON file that parses and has neither key is recorded as
\* unsupported, whatever its top-level value, and never ends the run.
C7_NonOscalUnsupported ==
  /\ \A i \in 1..Len(log) :
       NonOscalJson(log[i].file) => log[i].status = "unsupported"
  /\ (pc = "aborted" /\ raised # "callback") => ~NonOscalJson(Head(todo).file)

\* C8 as stated: every section an extractor returns to _normalize_file has
\* content, and a file recorded as processed had text extracted from it.
C8_NonEmptyContent ==
  /\ raised = "none" => \A i \in 1..Len(sections) : sections[i].content # <<>>
  /\ \A i \in 1..Len(log) :
       log[i].status = "processed" =>
         \E k \in 1..Len(Extract(log[i].file).sections) :
           Extract(log[i].file).sections[k].content # <<>>

\* C9 as stated: a walk with a callback takes the steps of the walk without
\* one, whatever the callback does: every iteration hands the file to
\* _normalize_file and records what it returns.
C9_CallbackNeutral ==
  [][(pc = "running" /\ todo # <<>> /\ progress_callback) => NormalizeNext]_vars

\* C10 as stated: a file is handed to _normalize_file once in a run, and a
\* file the run before recorded in errors reaches its extractor again in a
\* run without force.
C10_NaturalReattempt ==
  /\ \A i, j \in 1..Len(log) : i # j => log[i].file # log[j].file
  /\ (run >= 2 /\ ~force) =>
       \A i \in 1..Len(log) :
         (\E k \in 1..Len(prev.log) :
            prev.log[k].file = log[i].file /\ prev.log[k].status = "error")
         => log[i].dispatched /\ log[i].status # "skipped"

\* --------------------------------------------------------------------- C11
\* The elements of a finite set of numbers, in increasing order.
InOrder(S) ==
  [k \in 1..Cardinality(S) |->
     CHOOSE x \in S : Cardinality({y \in S : y < x}) = k - 1]

\* Element i of the container is a content element with visible text.
IsLine(nodes, i) == nodes[i].tag \in CONTENT_TAGS /\ nodes[i].text # ""

\* The position of the heading that most recently precedes element i, 0 when
\* no heading precedes it.
Governing(nodes, i) ==
  LET before == {j \in 1..(i - 1) : nodes[j].tag \in HEADING_TAGS}
  IN IF before = {} THEN 0 ELSE CHOOSE j \in before : \A k \in before : k <= j

\* The headings (0: the fallback title) that are followed by a line before
\* the next heading: one per maximal run of lines.
RunHeads(nodes) ==
  {Governing(nodes, i) : i \in {i \in 1..Len(nodes) : IsLine(nodes, i)}}

\* One section per run, in document order, under the run's heading and rank.
RunSections(stem, nodes) ==
  LET heads == InOrder(RunHeads(nodes))
  IN [k \in 1..Len(heads) |->
        LET h == heads[k]
            at == InOrder({i \in 1..Len(nodes) :
                            IsLine(nodes, i) /\ Governing(nodes, i) = h})
        IN [heading |-> IF h = 0 THEN stem ELSE nodes[h].text,
            level |-> IF h = 0 THEN 1 ELSE HeadingRank(nodes[h].tag),
            content |-> [n \in 1..Len(at) |-> nodes[at[n]].text]]]

\* The visible text of the container, one text per line.
VisibleText(nodes) ==
  LET at == InOrder({i \in 1..Len(nodes) : nodes[i].text # ""})
  IN [n \in 1..Len(at) |-> nodes[at[n]].text]

\* C11 as stated: for every sequence of elements in the container,
\* _extract_html returns exactly one section per maximal run of non-empty
\* content lines, in document order, under the text and rank of the heading
\* that most recently precedes the run (the stem and level 1 before the first
\* heading), and nothing for a heading that no line follows.
C11_OneSectionPerRun ==
  (pc = "done" /\ document.kind = "html")
    => sections = RunSections(document.stem, document.nodes)

\* C11, amended: that holds whenever the container has at least one run;
\* when it has none, _extract_html returns one section under the stem at
\* level 1 holding all the visible text of the container (heading texts
\* included) if there is any, and no section otherwise.
C11_RunsOrRawText ==
  (pc = "done" /\ document.kind = "html")
    => LET runs == RunSections(document.stem, document.nodes)
           raw == VisibleText(document.nodes)
       IN sections = IF runs # <<>> THEN runs
                     ELSE IF raw # <<>>
                     THEN << [heading |-> document.stem, level |-> 1,
                              content |-> raw] >>
                     ELSE <<>>

\* A walk that returned a run before the first heading and a run under a
\* heading, past a heading that no line follows.
C11_Witness ==
  /\ pc = "done"
  /\ document.kind = "html"
  /\ Len(sections) = 2
  /\ sections[1].heading = document.stem
  /\ sections[2].level = 3
  /\ \E i \in 1..Len(document.nodes) :
       /\ document.nodes[i].tag \in HEADING_TAGS
       /\ i \notin RunHeads(document.nodes)

\* --------------------------------------------------------------------- C12
\* The positions of the controls below a sequence of controls: <<i>> is its
\* i-th control, <<i, j>> the j-th enhancement of that control, and so on.
RECURSIVE Positions(_)
Positions(controls) ==
  UNION { {<<i>>} \cup {<<i>> \o below : below \in Positions(controls[i].controls)} :
          i \in 1..Len(controls) }

\* The positions of the controls of a catalog, the group's number first: a
\* control at nesting depth d has a position of length 2 + d.
CatalogPositions(catalog) ==
  UNION { {<<g>> \o at : at \in Positions(catalog.groups[g].controls)} :
          g \in 1..Len(catalog.groups) }

RECURSIVE Descend(_, _)
Descend(controls, at) ==
  IF Len(at) = 1 THEN controls[at[1]]
  ELSE Descend(controls[at[1]].controls, Tail(at))

\* The control at a position of a catalog.
ControlAt(catalog, at) == Descend(catalog.groups[at[1]].controls, Tail(at))

\* Position p comes before position q in document pre-order: p is above q,
\* or p is to the left of q where they first differ.
Before(p, q) ==
  \E i \in 1..Len(q) :
    /\ \A j \in 1..(i - 1) : j <= Len(p) /\ p[j] = q[j]
    /\ (i > Len(p) \/ p[i] < q[i])

\* The heading of a control: its id in upper case and its title.
ControlHeading(control) ==
  IF "id" \in DOMAIN control
  THEN Upper(control.id) \o ": " \o control.title
  ELSE control.title

\* The assembled statement and guidance content of a control.
ControlContent(control) == JoinBlocks(TextParts(control.parts))

\* The positions of the controls whose heading and content are both non-empty.
Emitting(catalog) ==
  {at \in CatalogPositions(catalog) :
     /\ ControlHeading(ControlAt(catalog, at)) # ""
     /\ ControlContent(ControlAt(catalog, at)) # <<>>}

\* C12: _extract_catalog returns one section for each control whose heading
\* and assembled content are both non-empty and none for any other, in
\* document pre-order (groups in order, a control before its enhancements,
\* enhancements in order), a control at nesting depth d at level 2 + d; the
\* sections of the enhancements of a control that has no section are there.
C12_PreOrderFlattening ==
  (pc = "done" /\ document.kind = "catalog")
    => LET emitting == Emitting(document.catalog)
       IN /\ Len(sections) = Cardinality(emitting)
          /\ \A at \in emitting :
               LET control == ControlAt(document.catalog, at)
                   rank == 1 + Cardinality({p \in emitting : Before(p, at)})
               IN sections[rank] =
                    [heading |-> ControlHeading(control),
                     level |-> 2 + (Len(at) - 2),
                     content |-> ControlContent(control)]

\* A catalog flattened to several sections, one of them for an enhancement of
\* a control that has no section of its own, one for an enhancement at depth 2.
C12_Witness ==
  /\ pc = "done"
  /\ document.kind = "catalog"
  /\ Len(sections) >= 2
  /\ \E i \in 1..Len(sections) : sections[i].level = 4
  /\ \E at \in Emitting(document.catalog) :
       /\ Len(at) > 2
       /\ SubSeq(at, 1, Len(at) - 1) \notin Emitting(document.catalog)

====
